---- MODULE Spec2Model ----
(***************************************************************************)
(* Lexical path cleaning of joat-path (src/src/path_clean.rs) and the      *)
(* absolute-path resolver built on it (src/src/absolute_path.rs).          *)
(*                                                                         *)
(* A string is a sequence of characters; a character is a one-character    *)
(* TLA+ string.  A dialect P is "Unix" or "Windows" (the two impls of      *)
(* PathCharacteristics).  clean_core is modelled twice from the same arm   *)
(* operators: as a state machine that walks the segments one per step      *)
(* (variables below), and as the operator clean_core(P, path) that folds   *)
(* the same arms, used to relate the results of two different inputs.      *)
(***************************************************************************)
EXTENDS Naturals, Sequences, FiniteSets

VARIABLES P, input, path, pc, is_rooted, segments, num_segments, idx, out,
          result, round, first,
          target_os, op, base_dir, target, apc, joined, outcome

\* the state of a call of clean_core
cleanVars == <<P, input, path, pc, is_rooted, segments, num_segments, idx, out,
               result, round, first>>

\* the state of a call of absolute_path or of PathBuf's clean method
absVars == <<target_os, op, base_dir, target, apc, joined, outcome>>

vars == <<P, input, path, pc, is_rooted, segments, num_segments, idx, out,
          result, round, first,
          target_os, op, base_dir, target, apc, joined, outcome>>

\* Longest input string drawn by Init.
MaxLen == 7

\* Characters of the input strings: both separators, the dot and a letter.
Chars == {"/", "\\", ".", "a"}

Dialects == {"Unix", "Windows"}

\* Longest input string drawn by InitFair.
MaxLenFair == 6

\* All strings of at most n characters.
StringsUpTo(n) == UNION {[1..k -> Chars] : k \in 0..n}

\* All input strings of at most MaxLen characters.
Paths == StringsUpTo(MaxLen)

----------------------------------------------------------------------------
(* Option<T> *)

None == [some |-> FALSE, val |-> <<>>]

Some(v) == [some |-> TRUE, val |-> v]

\* mutant: the test of the popped value is lost
is_some_unchecked(opt) == TRUE

\* Option::is_some
is_some(opt) == opt.some

\* Option::is_none
is_none(opt) == ~opt.some

\* Option::unwrap panics on None; the panic is the value "panic".
unwrap(opt) == IF opt.some THEN opt.val ELSE "panic"

----------------------------------------------------------------------------
(* PathCharacteristics, impl for UnixPath and WindowsPath *)

\* mutant: the forward slash is canonical in both dialects
CANONICAL_SEPARATOR_slash(D) == "/"

CANONICAL_SEPARATOR(D) == IF D = "Unix" THEN "/" ELSE "\\"

\* mutant: the Unix dialect matches the backslash too
SeparatorChars_both(D) == {"\\", "/"}

\* The characters the dialect's starts_with / trim_end_matches / split match.
SeparatorChars(D) == IF D = "Unix" THEN {"/"} ELSE {"\\", "/"}

\* mutant: the Windows dialect compares with the backslash only
is_separator_canonical(D, p) == p = <<CANONICAL_SEPARATOR(D)>>

is_separator(D, p) ==
    IF D = "Unix" THEN p = <<"/">> ELSE p = <<"\\">> \/ p = <<"/">>

\* mutant: only the canonical separator is matched
starts_with_separator_canonical(D, p) == Len(p) > 0 /\ p[1] = CANONICAL_SEPARATOR(D)

starts_with_separator(D, p) == Len(p) > 0 /\ p[1] \in SeparatorChars(D)

RECURSIVE trim_end_matches_separator(_, _)
trim_end_matches_separator(D, p) ==
    IF Len(p) > 0 /\ p[Len(p)] \in SeparatorChars(D)
    THEN trim_end_matches_separator(D, SubSeq(p, 1, Len(p) - 1))
    ELSE p

\* str::split: one more item than there are separator characters; empty
\* items are kept.  cur is the item being collected.
RECURSIVE SplitFrom(_, _, _, _)
SplitFrom(D, p, i, cur) ==
    IF i > Len(p) THEN <<cur>>
    ELSE IF p[i] \in SeparatorChars(D)
         THEN <<cur>> \o SplitFrom(D, p, i + 1, <<>>)
         ELSE SplitFrom(D, p, i + 1, Append(cur, p[i]))

split_on_separators(D, p) == SplitFrom(D, p, 1, <<>>)

----------------------------------------------------------------------------
(* mod internal *)

\* mutant: ".." is answered like "."
special_path_parent_as_dot(D, p) ==
    IF is_separator(D, p) THEN Some(<<CANONICAL_SEPARATOR(D)>>)
    ELSE IF p = <<>> \/ p = <<".">> \/ p = <<".", ".">> THEN Some(<<".">>)
    ELSE None

special_path(D, p) ==
    IF is_separator(D, p) THEN Some(<<CANONICAL_SEPARATOR(D)>>)
    ELSE IF p = <<>> \/ p = <<".">> THEN Some(<<".">>)
    ELSE IF p = <<".", ".">> THEN Some(<<".", ".">>)
    ELSE None

\* mutant: rooted only when the path is exactly one separator
is_root_exact(D, p) == is_separator(D, p)

is_root(D, p) == starts_with_separator(D, p)

\* mutant: nothing is trimmed
trim_end_path_untrimmed(D, p) == p

trim_end_path(D, p) == trim_end_matches_separator(D, p)

split_path_segments(D, p) == split_on_separators(D, p)

\* [T]::join
RECURSIVE join_path_segments(_, _)
join_path_segments(D, segs) ==
    IF Len(segs) = 0 THEN <<>>
    ELSE IF Len(segs) = 1 THEN segs[1]
    ELSE segs[1] \o <<CANONICAL_SEPARATOR(D)>> \o join_path_segments(D, Tail(segs))

\* mutant: the separator is appended instead of prepended
make_absolute_appended(D, p) == p \o <<CANONICAL_SEPARATOR(D)>>

make_absolute(D, p) == <<CANONICAL_SEPARATOR(D)>> \o p

\* mutant: the negation is lost
can_backtrack_inverted(segment) == segment = <<".">> \/ segment = <<".", ".">>

can_backtrack(segment) == ~(segment = <<".">> \/ segment = <<".", ".">>)

----------------------------------------------------------------------------
(* clean_core: the arms of the match on a segment.  An arm yields the new  *)
(* output stack and whether it panicked.                                   *)

\* Vec::pop: the last element and the remaining vector.
pop(v) == IF Len(v) = 0 THEN [item |-> None, rest |-> v]
          ELSE [item |-> Some(v[Len(v)]), rest |-> SubSeq(v, 1, Len(v) - 1)]

\* mutant: the arm is missing, so the default arm pushes the segment
EmptyArm_pushing(o, segment) == [out |-> Append(o, segment), panic |-> FALSE]

\* "" arm
EmptyArm(o, segment) == [out |-> o, panic |-> FALSE]

\* mutant: the arm is missing, so the default arm pushes the segment
DotArm_pushing(o, segment, n) == [out |-> Append(o, segment), panic |-> FALSE]

\* "." arm
DotArm(o, segment, n) ==
    [out |-> IF n = 1 THEN Append(o, segment) ELSE o, panic |-> FALSE]

\* mutant: a `..` with nothing before it is dropped in a relative path too
DotDotArm_dropping(o, segment, rooted) ==
    LET popped == pop(o)
        previous == popped.item
    IN  IF is_some(previous) /\ ~can_backtrack(unwrap(previous))
        THEN [out |-> Append(Append(popped.rest, unwrap(previous)), segment),
              panic |-> FALSE]
        ELSE [out |-> popped.rest, panic |-> FALSE]

\* ".." arm; && evaluates previous.unwrap() only when previous.is_some() holds.
DotDotArm(o, segment, rooted) ==
    LET popped == pop(o)
        previous == popped.item
    IN  IF is_some(previous) /\ unwrap(previous) = "panic"
        THEN [out |-> popped.rest, panic |-> TRUE]
        ELSE IF is_some(previous) /\ ~can_backtrack(unwrap(previous))
        THEN [out |-> Append(Append(popped.rest, unwrap(previous)), segment),
              panic |-> FALSE]
        ELSE IF is_none(previous) /\ ~rooted
        THEN [out |-> Append(popped.rest, segment), panic |-> FALSE]
        ELSE [out |-> popped.rest, panic |-> FALSE]

\* any other segment
NormalArm(o, segment) == [out |-> Append(o, segment), panic |-> FALSE]

\* mutant: the empty check is forgotten
EmptyToDot_unchecked(s) == s

\* the final `if out_str_1.is_empty()`
EmptyToDot(s) == IF Len(s) = 0 THEN <<".">> ELSE s

\* join, make_absolute when rooted, "." when empty
Assemble(D, o, rooted) ==
    LET out_str_0 == join_path_segments(D, o)
        out_str_1 == IF rooted THEN make_absolute(D, out_str_0) ELSE out_str_0
    IN  EmptyToDot(out_str_1)

MatchArm(o, segment, n, rooted) ==
    IF segment = <<>> THEN EmptyArm(o, segment)
    ELSE IF segment = <<".">> THEN DotArm(o, segment, n)
    ELSE IF segment = <<".", ".">> THEN DotDotArm(o, segment, rooted)
    ELSE NormalArm(o, segment)

\* the for loop, from segment i on
RECURSIVE Walk(_, _, _, _, _)
Walk(segs, i, o, n, rooted) ==
    IF i > Len(segs) THEN o
    ELSE Walk(segs, i + 1, MatchArm(o, segs[i], n, rooted).out, n, rooted)

\* clean_core after the special_path test: is_root, trim, split, walk, join
general_core(D, p) ==
    LET rooted == is_root(D, p)
        segs == split_path_segments(D, trim_end_path(D, p))
    IN  Assemble(D, Walk(segs, 1, <<>>, Len(segs), rooted), rooted)

\* clean_core as a function of its input
clean_core(D, p) ==
    IF special_path(D, p) # None THEN special_path(D, p).val
    ELSE general_core(D, p)

clean_unix(p) == clean_core("Unix", p)

\* mutant: the Unix characteristics are used
clean_windows_as_unix(p) == clean_core("Unix", p)

clean_windows(p) == clean_core("Windows", p)

----------------------------------------------------------------------------
(* clean_core as a state machine: one call on `path`, then a second call   *)
(* on the first call's result.                                             *)

InitWith(inputs) ==
    /\ P \in Dialects
    /\ input \in inputs
    /\ path = input
    /\ pc = "start"
    /\ is_rooted = FALSE
    /\ segments = <<>>
    /\ num_segments = 0
    /\ idx = 1
    /\ out = <<>>
    /\ result = <<>>
    /\ round = 1
    /\ first = <<>>
    /\ target_os = "linux"
    /\ op = "none"
    /\ base_dir = <<>>
    /\ target = <<>>
    /\ apc = "idle"
    /\ joined = <<>>
    /\ outcome = [ok |-> FALSE, kind |-> "none", value |-> <<>>]

Init == InitWith(Paths)

InitFair == InitWith(StringsUpTo(MaxLenFair))

\* special_path returned Some: return it
ReturnSpecial ==
    /\ pc = "start"
    /\ special_path(P, path) # None
    /\ result' = special_path(P, path).val
    /\ pc' = "done"
    /\ UNCHANGED <<P, input, path, is_rooted, segments, num_segments, idx, out, round, first>>
    /\ UNCHANGED absVars

\* out = vec![], is_root, trim, split, num_segments
Prepare ==
    /\ pc = "start"
    /\ special_path(P, path) = None
    /\ out' = <<>>
    /\ is_rooted' = is_root(P, path)
    /\ segments' = split_path_segments(P, trim_end_path(P, path))
    /\ num_segments' = Len(split_path_segments(P, trim_end_path(P, path)))
    /\ idx' = 1
    /\ pc' = "walk"
    /\ UNCHANGED <<P, input, path, result, round, first>>
    /\ UNCHANGED absVars

Step(arm) ==
    /\ out' = arm.out
    /\ idx' = idx + 1
    /\ pc' = IF arm.panic THEN "panicked" ELSE "walk"
    /\ UNCHANGED <<P, input, path, is_rooted, segments, num_segments, result, round, first>>
    /\ UNCHANGED absVars

StepEmpty ==
    /\ pc = "walk" /\ idx <= Len(segments)
    /\ segments[idx] = <<>>
    /\ Step(EmptyArm(out, segments[idx]))

StepDot ==
    /\ pc = "walk" /\ idx <= Len(segments)
    /\ segments[idx] = <<".">>
    /\ Step(DotArm(out, segments[idx], num_segments))

StepDotDot ==
    /\ pc = "walk" /\ idx <= Len(segments)
    /\ segments[idx] = <<".", ".">>
    /\ Step(DotDotArm(out, segments[idx], is_rooted))

StepNormal ==
    /\ pc = "walk" /\ idx <= Len(segments)
    /\ segments[idx] \notin {<<>>, <<".">>, <<".", ".">>}
    /\ Step(NormalArm(out, segments[idx]))

\* after the loop: join, make_absolute, empty check, return
Finish ==
    /\ pc = "walk" /\ idx > Len(segments)
    /\ result' = Assemble(P, out, is_rooted)
    /\ pc' = "done"
    /\ UNCHANGED <<P, input, path, is_rooted, segments, num_segments, idx, out, round, first>>
    /\ UNCHANGED absVars

\* the caller cleans the cleaned path
CleanAgain ==
    /\ pc = "done" /\ round = 1
    /\ first' = result
    /\ path' = result
    /\ round' = 2
    /\ pc' = "start"
    /\ is_rooted' = FALSE
    /\ segments' = <<>>
    /\ num_segments' = 0
    /\ idx' = 1
    /\ out' = <<>>
    /\ result' = <<>>
    /\ UNCHANGED <<P, input>>
    /\ UNCHANGED absVars

Next ==
    \/ ReturnSpecial
    \/ Prepare
    \/ StepEmpty
    \/ StepDot
    \/ StepDotDot
    \/ StepNormal
    \/ Finish
    \/ CleanAgain

Spec == Init /\ [][Next]_vars

\* every call runs to its end: no step of the program waits for anything
FairSpec == InitFair /\ [][Next]_vars /\ WF_vars(Next)

----------------------------------------------------------------------------
(* std::path as absolute_path and PathBuf's clean method use it.  A host   *)
(* path is a sequence of characters that may hold InvalidByte, a unit that *)
(* is not valid Unicode.  On the windows target a path may start with the  *)
(* disk prefix "Z:"; UNC, device and verbatim prefixes are not drawn.      *)

\* Longest base_dir drawn by InitAbs (the disk prefix not counted).
MaxBaseLen == 3

\* Longest path drawn by InitAbs (the disk prefix not counted).
MaxTargetLen == 3

\* cfg(target_os): "windows" or any other target
Targets == {"linux", "windows"}

InvalidByte == "?"

OsChars == Chars \cup {InvalidByte}

OsStringsUpTo(n) == UNION {[1..k -> OsChars] : k \in 0..n}

DiskPrefix == <<"Z", ":">>

\* type PlatformPath of clean
PlatformPath(os) == IF os = "windows" THEN "Windows" ELSE "Unix"

\* clean: clean_core of the platform's dialect
clean(os, p) == clean_core(PlatformPath(os), p)

MAIN_SEPARATOR(os) == IF os = "windows" THEN "\\" ELSE "/"

is_sep_byte(os, c) == IF os = "windows" THEN c \in {"/", "\\"} ELSE c = "/"

\* length of the disk prefix of p, 0 when it has none
prefix_len(os, p) ==
    IF os = "windows" /\ Len(p) >= 2 /\ p[1] = "Z" /\ p[2] = ":" THEN 2 ELSE 0

\* Path::has_root
has_root(os, p) ==
    Len(p) > prefix_len(os, p) /\ is_sep_byte(os, p[prefix_len(os, p) + 1])

\* Path::is_absolute
is_absolute(os, p) ==
    has_root(os, p) /\ (os # "windows" \/ prefix_len(os, p) > 0)

\* Components::include_cur_dir: a leading `.` is a component
include_cur_dir(os, p) ==
    LET k == prefix_len(os, p)
    IN  /\ ~has_root(os, p)
        /\ Len(p) > k
        /\ p[k + 1] = "."
        /\ (Len(p) = k + 1 \/ is_sep_byte(os, p[k + 2]))

\* the number of non-empty items of segs that are not `.`
RECURSIVE CountNamed(_)
CountNamed(segs) ==
    IF Len(segs) = 0 THEN 0
    ELSE (IF Head(segs) = <<>> \/ Head(segs) = <<".">> THEN 0 ELSE 1)
         + CountNamed(Tail(segs))

\* Path::components().count(): prefix, root, leading `.`, then every
\* non-empty segment that is not `.`
components_count(os, p) ==
    LET k == prefix_len(os, p)
        body == SubSeq(p, k + 1, Len(p))
    IN  (IF k > 0 THEN 1 ELSE 0)
        + (IF has_root(os, p) THEN 1 ELSE 0)
        + (IF include_cur_dir(os, p) THEN 1 ELSE 0)
        + CountNamed(split_on_separators(PlatformPath(os), body))

\* mutant: the path is always appended to the base
join_appending(os, base, p) ==
    IF Len(base) > 0 /\ ~is_sep_byte(os, base[Len(base)])
    THEN base \o <<MAIN_SEPARATOR(os)>> \o p
    ELSE base \o p

\* Path::join (PathBuf::push): an absolute or prefixed path replaces the
\* base, a rooted one all but the base's prefix, any other is appended.
join(os, base, p) ==
    LET need_sep == /\ Len(base) > 0
                    /\ ~is_sep_byte(os, base[Len(base)])
                    /\ ~(prefix_len(os, base) > 0 /\ prefix_len(os, base) = Len(base))
    IN  IF is_absolute(os, p) \/ prefix_len(os, p) > 0 THEN p
        ELSE IF has_root(os, p) THEN SubSeq(base, 1, prefix_len(os, base)) \o p
        ELSE IF need_sep THEN base \o <<MAIN_SEPARATOR(os)>> \o p
        ELSE base \o p

\* Path::to_str: None when the path is not valid Unicode
to_str(p) ==
    IF \E i \in 1..Len(p) : p[i] = InvalidByte THEN None ELSE Some(p)

\* Option::unwrap_or
unwrap_or(opt, default) == IF opt.some THEN opt.val ELSE default

\* io::Result<PathBuf>
Ok(v) == [ok |-> TRUE, kind |-> "", value |-> v]

Err(kind) == [ok |-> FALSE, kind |-> kind, value |-> <<>>]

----------------------------------------------------------------------------
(* absolute_path and impl PathClean for PathBuf *)

\* mutant: the string is not cleaned
normalize_uncleaned(os, p) ==
    IF to_str(p) = None THEN Err("Other") ELSE Ok(to_str(p).val)

\* absolute_path::normalize
normalize(os, p) ==
    IF to_str(p) = None THEN Err("Other") ELSE Ok(clean(os, to_str(p).val))

\* mutant: the root is tested, not the prefix
base_dir_is_absolute_rooted(os, b) == has_root(os, b)

\* the test of base_dir
base_dir_is_absolute(os, b) == is_absolute(os, b)

\* the match on components().count()
select_path(os, b, p) ==
    IF components_count(os, p) = 0 THEN b ELSE join(os, b, p)

\* absolute_path as a function of its inputs
absolute_path(os, b, p) ==
    IF ~base_dir_is_absolute(os, b) THEN Err("InvalidInput")
    ELSE normalize(os, select_path(os, b, p))

\* mutant: a path that is not a string is cleaned as ".."
PathBuf_clean_parent(os, p) == clean(os, unwrap_or(to_str(p), <<".", ".">>))

\* PathClean::clean for PathBuf
PathBuf_clean(os, p) == clean(os, unwrap_or(to_str(p), <<>>))

\* the host paths of at most n characters after the optional disk prefix
HostPaths(os, n) ==
    IF os = "windows"
    THEN {pre \o r : pre \in {<<>>, DiskPrefix},
                     r \in {q \in OsStringsUpTo(n) :
                               ~(Len(q) >= 2 /\ is_sep_byte(os, q[1]) /\ is_sep_byte(os, q[2]))}}
    ELSE OsStringsUpTo(n)

InitAbs ==
    /\ target_os \in Targets
    /\ op \in {"absolute_path", "clean"}
    /\ base_dir \in IF op = "absolute_path" THEN HostPaths(target_os, MaxBaseLen) ELSE {<<>>}
    /\ target \in HostPaths(target_os, MaxTargetLen)
    /\ apc = "start"
    /\ joined = <<>>
    /\ outcome = [ok |-> FALSE, kind |-> "none", value |-> <<>>]
    /\ P = PlatformPath(target_os)
    /\ input = <<>>
    /\ path = <<>>
    /\ pc = "idle"
    /\ is_rooted = FALSE
    /\ segments = <<>>
    /\ num_segments = 0
    /\ idx = 1
    /\ out = <<>>
    /\ result = <<>>
    /\ round = 1
    /\ first = <<>>

\* base_dir is not absolute: return Err(InvalidInput)
RejectBaseDir ==
    /\ op = "absolute_path" /\ apc = "start"
    /\ ~base_dir_is_absolute(target_os, base_dir)
    /\ outcome' = Err("InvalidInput")
    /\ apc' = "done"
    /\ UNCHANGED <<target_os, op, base_dir, target, joined>>
    /\ UNCHANGED cleanVars

\* components().count() is 0: the base directory alone
TakeBaseDir ==
    /\ op = "absolute_path" /\ apc = "start"
    /\ base_dir_is_absolute(target_os, base_dir)
    /\ components_count(target_os, target) = 0
    /\ joined' = select_path(target_os, base_dir, target)
    /\ apc' = "normalize"
    /\ UNCHANGED <<target_os, op, base_dir, target, outcome>>
    /\ UNCHANGED cleanVars

\* any other count: base_dir.join(path)
JoinPath ==
    /\ op = "absolute_path" /\ apc = "start"
    /\ base_dir_is_absolute(target_os, base_dir)
    /\ components_count(target_os, target) # 0
    /\ joined' = select_path(target_os, base_dir, target)
    /\ apc' = "normalize"
    /\ UNCHANGED <<target_os, op, base_dir, target, outcome>>
    /\ UNCHANGED cleanVars

\* normalize: to_str is None
NormalizeErr ==
    /\ apc = "normalize"
    /\ ~normalize(target_os, joined).ok
    /\ outcome' = normalize(target_os, joined)
    /\ apc' = "done"
    /\ UNCHANGED <<target_os, op, base_dir, target, joined>>
    /\ UNCHANGED cleanVars

\* normalize: clean the string
NormalizeOk ==
    /\ apc = "normalize"
    /\ normalize(target_os, joined).ok
    /\ outcome' = normalize(target_os, joined)
    /\ apc' = "done"
    /\ UNCHANGED <<target_os, op, base_dir, target, joined>>
    /\ UNCHANGED cleanVars

\* PathBuf's clean method on `target`
CleanPathBuf ==
    /\ op = "clean" /\ apc = "start"
    /\ outcome' = Ok(PathBuf_clean(target_os, target))
    /\ apc' = "done"
    /\ UNCHANGED <<target_os, op, base_dir, target, joined>>
    /\ UNCHANGED cleanVars

NextAbs ==
    \/ RejectBaseDir
    \/ TakeBaseDir
    \/ JoinPath
    \/ NormalizeErr
    \/ NormalizeOk
    \/ CleanPathBuf

SpecAbs == InitAbs /\ [][NextAbs]_vars

----------------------------------------------------------------------------
(* lib.rs: the cleaner written over separator patterns.  A pattern is the  *)
(* set of characters it matches.                                           *)

\* '/' for UnixPath, &['\\', '/'] for WindowsPath
SEPARATOR_PATTERN(D) == IF D = "Unix" THEN {"/"} ELSE {"\\", "/"}

SEPARATOR(D) == IF D = "Unix" THEN "/" ELSE "\\"

\* str::matches: the matched substrings, in order
RECURSIVE matches(_, _)
matches(pat, s) ==
    IF Len(s) = 0 THEN <<>>
    ELSE (IF Head(s) \in pat THEN <<<<Head(s)>>>> ELSE <<>>)
         \o matches(pat, Tail(s))

\* str::starts_with
starts_with(pat, s) == Len(s) > 0 /\ Head(s) \in pat

\* str::trim_end_matches
RECURSIVE trim_end_matches(_, _)
trim_end_matches(pat, s) ==
    IF Len(s) > 0 /\ s[Len(s)] \in pat
    THEN trim_end_matches(pat, SubSeq(s, 1, Len(s) - 1))
    ELSE s

\* str::split: the items between the matches, empty ones kept; the last
\* item is what follows the last match
RECURSIVE split(_, _)
split(pat, s) ==
    IF Len(s) = 0 THEN <<<<>>>>
    ELSE IF Head(s) \in pat THEN <<<<>>>> \o split(pat, Tail(s))
    ELSE LET rest == split(pat, Tail(s))
         IN  <<<<Head(s)>> \o Head(rest)>> \o Tail(rest)

\* (m.next(), m.next()) is (Some(x), None) and x == s
is_exact_match(p, s) ==
    LET m == matches(p, s)
    IN  IF Len(m) = 1 THEN m[1] = s ELSE FALSE

lib_special_path(D, p) ==
    IF is_exact_match(SEPARATOR_PATTERN(D), p) THEN Some(<<SEPARATOR(D)>>)
    ELSE IF p = <<>> THEN Some(<<".">>)
    ELSE IF p = <<".">> THEN Some(<<".">>)
    ELSE IF p = <<".", ".">> THEN Some(<<".", ".">>)
    ELSE None

lib_is_root(D, p) == starts_with(SEPARATOR_PATTERN(D), p)

lib_trim_end_path(D, p) == trim_end_matches(SEPARATOR_PATTERN(D), p)

lib_split_path_segments(D, p) == split(SEPARATOR_PATTERN(D), p)

\* [T]::join with SEPARATOR.to_string()
RECURSIVE lib_join_path_segments(_, _)
lib_join_path_segments(D, segs) ==
    IF Len(segs) = 0 THEN <<>>
    ELSE IF Len(segs) = 1 THEN Head(segs)
    ELSE Head(segs) \o <<SEPARATOR(D)>> \o lib_join_path_segments(D, Tail(segs))

lib_make_absolute(D, p) == <<SEPARATOR(D)>> \o p

lib_can_backtrack(segment) ==
    IF segment = <<".">> THEN FALSE
    ELSE IF segment = <<".", ".">> THEN FALSE
    ELSE TRUE

\* the body of the for loop: the output vector after the match on segment;
\* previous.unwrap() is reached only when previous.is_some() holds
lib_match_segment(o, segment, n, rooted) ==
    IF segment = <<>> THEN o
    ELSE IF segment = <<".">> THEN (IF n = 1 THEN Append(o, segment) ELSE o)
    ELSE IF segment = <<".", ".">>
    THEN LET popped == pop(o)
             previous == popped.item
         IN  IF previous.some /\ ~lib_can_backtrack(previous.val)
             THEN Append(Append(popped.rest, previous.val), segment)
             ELSE IF ~previous.some /\ ~rooted
             THEN Append(popped.rest, segment)
             ELSE popped.rest
    ELSE Append(o, segment)

\* the for loop over the segments not yet visited
RECURSIVE lib_for_segment(_, _, _, _)
lib_for_segment(segs, o, n, rooted) ==
    IF Len(segs) = 0 THEN o
    ELSE lib_for_segment(Tail(segs), lib_match_segment(o, Head(segs), n, rooted),
                         n, rooted)

\* clean_core of lib.rs as a function of its input
lib_clean_core(D, p) ==
    IF lib_special_path(D, p) # None THEN lib_special_path(D, p).val
    ELSE LET rooted == lib_is_root(D, p)
             trimmed == lib_trim_end_path(D, p)
             segs == lib_split_path_segments(D, trimmed)
             n == Len(segs)
             o == lib_for_segment(segs, <<>>, n, rooted)
             out_str_0 == lib_join_path_segments(D, o)
             out_str_1 == IF rooted THEN lib_make_absolute(D, out_str_0)
                          ELSE out_str_0
         IN  IF Len(out_str_1) = 0 THEN <<".">> ELSE out_str_1

----------------------------------------------------------------------------
(* Vocabulary of the properties *)

\* the non-empty segments of s, in order
RECURSIVE NonEmpty(_)
NonEmpty(segs) ==
    IF Len(segs) = 0 THEN <<>>
    ELSE IF Head(segs) = <<>> THEN NonEmpty(Tail(segs))
    ELSE <<Head(segs)>> \o NonEmpty(Tail(segs))

SegmentsOf(D, s) == NonEmpty(split_on_separators(D, s))

IsNormalName(D, n) ==
    /\ Len(n) > 0
    /\ \A i \in 1..Len(n) : n[i] \notin SeparatorChars(D)
    /\ n # <<".">>
    /\ n # <<".", ".">>

\* What is left of a sequence of segments after every `..` has cancelled the
\* nearest normal name before it that is still uncancelled: `up` counts the
\* `..` that found none, `names` the normal names that remain.
RECURSIVE Residue(_, _, _)
Residue(segs, up, names) ==
    IF Len(segs) = 0 THEN [up |-> up, names |-> names]
    ELSE IF Head(segs) = <<".">> THEN Residue(Tail(segs), up, names)
    ELSE IF Head(segs) = <<".", ".">>
         THEN IF names > 0 THEN Residue(Tail(segs), up, names - 1)
              ELSE Residue(Tail(segs), up + 1, names)
    ELSE Residue(Tail(segs), up, names + 1)

\* a non-rooted path whose segments all cancel
AllCancel(D, s) ==
    /\ ~(Len(s) > 0 /\ s[1] \in SeparatorChars(D))
    /\ Residue(SegmentsOf(D, s), 0, 0) = [up |-> 0, names |-> 0]

----------------------------------------------------------------------------
(* Properties of the cleaner *)

\* C1 (idempotence): in each dialect, cleaning the cleaned path returns the
\* cleaned path unchanged: the second call's result equals the first call's.
C1_Idempotence == (pc = "done" /\ round = 2) => result = first

\* a second call has finished on a first result that differs from the input
C1_Witness ==
    /\ pc = "done" /\ round = 2
    /\ first # input
    /\ Len(first) >= 3

EndsWithNameAndParent(D, s, k) ==
    /\ k >= 1
    /\ k + 5 <= Len(s)
    /\ s[k + 1] \in SeparatorChars(D)
    /\ IsNormalName(D, SubSeq(s, k + 2, Len(s) - 3))
    /\ s[Len(s) - 2] \in SeparatorChars(D)
    /\ s[Len(s) - 1] = "." /\ s[Len(s)] = "."

\* C3 (cancellation): for a non-empty path q and a normal name n, cleaning
\* q + sep + n + sep + ".." gives the same string as cleaning q.
C3_Cancellation ==
    pc = "done" =>
        \A k \in 1..Len(path) :
            EndsWithNameAndParent(P, path, k) =>
                result = clean_core(P, SubSeq(path, 1, k))

\* a path q/n/.. with a q of several characters was cleaned to clean(q),
\* which is shorter than the path
C3_Witness ==
    /\ pc = "done"
    /\ \E k \in 2..Len(path) :
            /\ EndsWithNameAndParent(P, path, k)
            /\ result = clean_core(P, SubSeq(path, 1, k))
            /\ Len(result) = 2

\* s starts with a separator character of the dialect
Rooted(D, s) == Len(s) > 0 /\ s[1] \in SeparatorChars(D)

\* C4 (root absorption): the result of cleaning a rooted path has no `..`
\* segment, however many `..` the path has; "/.." gives "/" and "/../a"
\* gives "/a".
C4_RootAbsorption ==
    (pc = "done" /\ Rooted(P, path)) =>
        /\ \A i \in 1..Len(SegmentsOf(P, result)) :
               SegmentsOf(P, result)[i] # <<".", ".">>
        /\ (P = "Unix" /\ path = <<"/", ".", ".">> => result = <<"/">>)
        /\ (P = "Unix" /\ path = <<"/", ".", ".", "/", "a">> => result = <<"/", "a">>)

\* a rooted path with a `..` that had no name to cancel was cleaned, and a
\* name is left in the result
C4_Witness ==
    /\ pc = "done" /\ Rooted(P, path)
    /\ Residue(SegmentsOf(P, path), 0, 0).up > 0
    /\ Len(SegmentsOf(P, result)) > 0

\* segs is k `..` followed by normal names only
ParentsThenNames(D, segs, k) ==
    /\ k <= Len(segs)
    /\ \A i \in 1..Len(segs) :
           IF i <= k THEN segs[i] = <<".", ".">> ELSE IsNormalName(D, segs[i])

\* C5 as stated (relative preservation): the result of cleaning a
\* non-rooted path consists of k `..` segments followed only by normal
\* names, k being the number of `..` of the input that found no normal name
\* to cancel.
C5_Stated ==
    (pc = "done" /\ ~Rooted(P, path)) =>
        ParentsThenNames(P, SegmentsOf(P, result),
                         Residue(SegmentsOf(P, path), 0, 0).up)

\* C5 as amended: as stated, except that when no `..` and no name is left
\* the result is ".", and in no other case.
C5_RelativePreservation ==
    (pc = "done" /\ ~Rooted(P, path)) =>
        LET r == Residue(SegmentsOf(P, path), 0, 0)
        IN  IF r.up = 0 /\ r.names = 0
            THEN result = <<".">>
            ELSE /\ ParentsThenNames(P, SegmentsOf(P, result), r.up)
                 /\ Len(SegmentsOf(P, result)) = r.up + r.names

\* a relative path in which one `..` cancelled a name and a later one found
\* none was cleaned, and the `..` is kept
C5_Witness ==
    /\ pc = "done" /\ ~Rooted(P, path)
    /\ \E i \in 1..Len(SegmentsOf(P, path)) : IsNormalName(P, SegmentsOf(P, path)[i])
    /\ Residue(SegmentsOf(P, path), 0, 0).up > 0
    /\ SegmentsOf(P, result)[1] = <<".", ".">>

\* C6 (separator collapse): a result has no empty segment: no two adjacent
\* separator characters, and no separator at its end unless the result is
\* exactly the canonical separator.
C6_SeparatorCollapse ==
    pc = "done" =>
        /\ \A i \in 1..(Len(result) - 1) :
               ~(result[i] \in SeparatorChars(P) /\ result[i + 1] \in SeparatorChars(P))
        /\ (Len(result) > 0 /\ result[Len(result)] \in SeparatorChars(P))
               => result = <<CANONICAL_SEPARATOR(P)>>

\* a path with a run of separators inside and one at its end was cleaned
C6_Witness ==
    /\ pc = "done" /\ round = 1
    /\ \E i \in 2..(Len(path) - 2) :
           /\ path[i] \in SeparatorChars(P) /\ path[i + 1] \in SeparatorChars(P)
           /\ path[1] = "a" /\ path[i + 2] = "a"
    /\ path[Len(path)] \in SeparatorChars(P)
    /\ Len(SegmentsOf(P, result)) = 2

\* C7 (dot elimination): a result has no `.` segment, unless the result is
\* exactly ".".
C7_DotElimination ==
    pc = "done" =>
        \/ result = <<".">>
        \/ \A i \in 1..Len(SegmentsOf(P, result)) : SegmentsOf(P, result)[i] # <<".">>

\* a path with a `.` segment and a normal name was cleaned; the name is left
C7_Witness ==
    /\ pc = "done" /\ round = 1
    /\ \E i \in 1..Len(SegmentsOf(P, path)) : SegmentsOf(P, path)[i] = <<".">>
    /\ Len(SegmentsOf(P, result)) >= 1
    /\ IsNormalName(P, SegmentsOf(P, result)[1])

\* C8 (Windows output): clean_windows never returns a string with a `/`;
\* "/a\a/a" gives "\a\a\a" and "/" gives "\".
C8_WindowsCanonical ==
    (pc = "done" /\ P = "Windows") =>
        /\ \A i \in 1..Len(result) : result[i] # "/"
        /\ (path = <<"/", "a", "\\", "a", "/", "a">>
               => result = <<"\\", "a", "\\", "a", "\\", "a">>)
        /\ (path = <<"/">> => result = <<"\\">>)

\* a Windows path that uses both separators between names was cleaned
C8_Witness ==
    /\ pc = "done" /\ P = "Windows" /\ round = 1
    /\ \E i, j \in 1..Len(path) : path[i] = "/" /\ path[j] = "\\"
    /\ Len(SegmentsOf(P, result)) >= 3

\* C9 (Unix backslash): clean_unix returns unchanged every input that has no
\* `/` and is not "", "." or "..", backslashes included, and a path that
\* starts with a backslash is not rooted.
C9_UnixBackslash ==
    P = "Unix" =>
        /\ (/\ pc = "done"
            /\ \A i \in 1..Len(path) : path[i] # "/"
            /\ path \notin {<<>>, <<".">>, <<".", ".">>})
               => result = path
        /\ (pc # "start" /\ Len(path) > 0 /\ path[1] = "\\") => ~is_rooted

\* a Unix path that starts with a backslash and has `..` between
\* backslashes was returned as it is
C9_Witness ==
    /\ pc = "done" /\ P = "Unix" /\ round = 1
    /\ \A i \in 1..Len(path) : path[i] # "/"
    /\ \E i \in 1..(Len(path) - 3) :
           path[i] = "\\" /\ path[i + 1] = "." /\ path[i + 2] = "." /\ path[i + 3] = "\\"
    /\ path[1] = "\\"
    /\ result = path

\* C10 (totality): clean_core never panics (the unwrap of the popped segment
\* runs only on a popped segment), every result is a string, and both calls
\* run to their end.
C10_Totality ==
    /\ [](pc # "panicked")
    /\ [](pc = "done" => result \in Seq(Chars))
    /\ <>(pc = "done" /\ round = 2)

\* a walk ended in which the first `..` popped nothing and the second `..`
\* popped the first
C10_Witness ==
    /\ pc = "done"
    /\ Len(segments) >= 2
    /\ segments[1] = <<".", ".">> /\ segments[2] = <<".", ".">>

\* test_helpers::to_windows: every `/` replaced by `\`
to_windows(p) == [i \in 1..Len(p) |-> IF p[i] = "/" THEN "\\" ELSE p[i]]

\* C17 (the dialects agree): for a path without a backslash, cleaning its
\* Windows form in the Windows dialect gives the Windows form of cleaning
\* it in the Unix dialect.
C17_DialectsAgree ==
    (pc = "done" /\ P = "Unix" /\ \A i \in 1..Len(path) : path[i] # "\\") =>
        clean_windows(to_windows(path)) = to_windows(result)

\* a Unix path with several separators and a `..` was cleaned to a result
\* that still has a separator
C17_Witness ==
    /\ pc = "done" /\ P = "Unix" /\ round = 1
    /\ \A i \in 1..Len(path) : path[i] # "\\"
    /\ \E i \in 1..Len(SegmentsOf(P, path)) : SegmentsOf(P, path)[i] = <<".", ".">>
    /\ \E i \in 2..Len(result) : result[i] = "/"
    /\ result # path

\* s is one or more separator characters and nothing else
OnlySeparators(D, s) == Len(s) >= 1 /\ \A i \in 1..Len(s) : s[i] \in SeparatorChars(D)

\* C18 (rootedness): a result starts with the canonical separator exactly
\* when the input starts with a separator of the dialect, and an input of
\* separators only gives the canonical separator alone.
C18_Rootedness ==
    pc = "done" =>
        /\ (Len(result) > 0 /\ result[1] = CANONICAL_SEPARATOR(P)) <=> Rooted(P, path)
        /\ OnlySeparators(P, path) => result = <<CANONICAL_SEPARATOR(P)>>

\* a Windows path that starts with `/` and ends with separators was
\* cleaned, and one of several separators only
C18_Witness ==
    /\ pc = "done" /\ P = "Windows" /\ round = 1
    /\ Len(path) >= 2
    /\ path[1] = "/"
    /\ \/ OnlySeparators(P, path) /\ Len(path) >= 3
       \/ path[Len(path)] \in SeparatorChars(P) /\ Len(result) >= 2
    /\ result[1] = "\\"

\* s is `.` followed by one or more separator characters
DotThenSeparators(D, s) ==
    /\ Len(s) >= 2
    /\ s[1] = "."
    /\ \A i \in 2..Len(s) : s[i] \in SeparatorChars(D)

\* C19 as stated: no input reaches the `.` arm with num_segments == 1, and
\* `.` is never on the output stack.
C19_Stated ==
    /\ (pc = "walk" /\ idx <= Len(segments) /\ segments[idx] = <<".">>)
           => num_segments # 1
    /\ \A i \in 1..Len(out) : out[i] # <<".">>

\* C19 as amended: the `.` arm is reached with num_segments == 1 exactly by
\* an input that is `.` followed by separators; `.` is then the only entry
\* of the stack, no other input puts `.` there, and the result is ".".
C19_DotPush ==
    /\ (pc = "walk" /\ idx <= Len(segments) /\ segments[idx] = <<".">>
           /\ num_segments = 1)
           => DotThenSeparators(P, path)
    /\ (\E i \in 1..Len(out) : out[i] = <<".">>)
           => /\ out = <<<<".">>>>
              /\ DotThenSeparators(P, path)
              /\ (pc = "done" => result = <<".">>)
    /\ (pc = "done" /\ DotThenSeparators(P, path))
           => out = <<<<".">>>>

\* a walk has pushed `.` and returned "."
C19_Witness ==
    /\ pc = "done"
    /\ out = <<<<".">>>>
    /\ num_segments = 1
    /\ result = <<".">>

\* C20 as stated: for an input the short-circuit answers, the rest of
\* clean_core would return another string.
C20_Stated ==
    (pc = "done" /\ special_path(P, path) # None) =>
        general_core(P, path) # result

\* C20 as amended: for an input the short-circuit answers, the rest of
\* clean_core returns the same string.
C20_ShortCircuitAgrees ==
    (pc = "done" /\ special_path(P, path) # None) =>
        general_core(P, path) = result

\* the short-circuit has answered ".." and the rest of clean_core agrees
C20_Witness ==
    /\ pc = "done" /\ round = 1
    /\ path = <<".", ".">>
    /\ result = <<".", ".">>
    /\ general_core(P, path) = result

\* the `..` segment
Parent == <<".", ".">>

\* the loop is about to run the ".." arm on its current segment
AtParentSegment ==
    /\ pc = "walk" /\ idx <= Len(segments)
    /\ segments[idx] = Parent

\* C21: at every step of the segment walk of clean_core, in both dialects,
\* the output stack holds no empty segment; everything below a `..` of the
\* stack is a `..` (the `..` entries are a contiguous bottom prefix, under
\* every normal name); a `..` is on the stack only when the path is not
\* rooted; and when a `..` segment finds a previous entry that is `.` or
\* `..`, the path is not rooted and the whole stack is a run of `..`.
C21_StackInvariant ==
    /\ \A i \in 1..Len(out) : out[i] # <<>>
    /\ \A i \in 1..Len(out) : \A j \in 1..Len(out) :
           (i < j /\ out[j] = Parent) => out[i] = Parent
    /\ (\E i \in 1..Len(out) : out[i] = Parent) => ~is_rooted
    /\ (/\ AtParentSegment
        /\ Len(out) > 0
        /\ out[Len(out)] \in {<<".">>, Parent})
       => /\ ~is_rooted
          /\ \A i \in 1..Len(out) : out[i] = Parent

\* the walk of a relative path has kept a `..` and is at the next `..`
\* segment, which finds that `..` as its previous entry
C21_Witness ==
    /\ AtParentSegment
    /\ ~is_rooted
    /\ out = <<Parent>>

\* C22: for every input and each dialect, clean_core of lib.rs returns the
\* string clean_core of path_clean.rs returns, and is_exact_match over the
\* dialect's separator pattern holds of a path exactly when is_separator
\* holds of it.
C22_Equivalent ==
    /\ is_exact_match(SEPARATOR_PATTERN(P), path) <=> is_separator(P, path)
    /\ pc = "done" => lib_clean_core(P, path) = result

\* the Windows cleaner has answered for a path with both separators, a `.`
\* and a `..`, and lib.rs gives the same answer
C22_Witness ==
    /\ pc = "done" /\ round = 1
    /\ P = "Windows"
    /\ path = <<"/", ".", "\\", "a", "/", ".", ".">>
    /\ result = <<"\\">>
    /\ lib_clean_core(P, path) = result

----------------------------------------------------------------------------
(* Properties of absolute_path and of PathBuf's clean method *)

\* p is absolute on the target: it starts with a separator, after the disk
\* prefix on windows
AbsoluteHostPath(os, p) ==
    IF os = "windows"
    THEN Len(p) >= 3 /\ SubSeq(p, 1, 2) = <<"Z", ":">> /\ p[3] \in {"/", "\\"}
    ELSE Len(p) >= 1 /\ p[1] = "/"

\* p can be converted to a string
Convertible(p) == \A i \in 1..Len(p) : p[i] # "?"

Contains(p, c) == \E i \in 1..Len(p) : p[i] = c

\* C11 (base directory check): when base_dir is not absolute, absolute_path
\* joins and converts nothing and returns the error InvalidInput, whatever
\* the path is.
C11_RejectsRelativeBase ==
    (op = "absolute_path" /\ ~AbsoluteHostPath(target_os, base_dir)) =>
        /\ apc # "normalize"
        /\ joined = <<>>
        /\ (apc = "done" => outcome = Err("InvalidInput"))

\* a call with a relative base_dir and an absolute path that is not a string
\* has returned InvalidInput
C11_Witness ==
    /\ op = "absolute_path" /\ apc = "done"
    /\ ~AbsoluteHostPath(target_os, base_dir)
    /\ Len(base_dir) > 0
    /\ AbsoluteHostPath(target_os, target)
    /\ ~Convertible(target)
    /\ outcome = Err("InvalidInput")

\* the join as C12 states it: the path when it is absolute, else the base
\* followed by the path
StatedJoin(os, b, p) ==
    IF AbsoluteHostPath(os, p) THEN p
    ELSE b \o <<IF os = "windows" THEN "\\" ELSE "/">> \o p

\* the host join: on windows a path with a disk prefix also replaces the
\* base, and a path that starts with a separator replaces all of the base
\* but its disk prefix
HostJoin(os, b, p) ==
    IF AbsoluteHostPath(os, p) THEN p
    ELSE IF os = "windows" /\ Len(p) >= 2 /\ SubSeq(p, 1, 2) = <<"Z", ":">> THEN p
    ELSE IF os = "windows" /\ p[1] \in {"/", "\\"} THEN SubSeq(b, 1, 2) \o p
    ELSE b \o <<IF os = "windows" THEN "\\" ELSE "/">> \o p

\* C12 as stated: for an absolute base_dir and a non-empty path the result
\* is Clean(J), J being the path when it is absolute and else base_dir
\* followed by the path.
C12_Stated ==
    (/\ op = "absolute_path" /\ apc = "done"
     /\ AbsoluteHostPath(target_os, base_dir)
     /\ target # <<>>
     /\ Convertible(StatedJoin(target_os, base_dir, target)))
        => outcome = Ok(clean(target_os, StatedJoin(target_os, base_dir, target)))

\* C12 as amended: the result is Clean(J) for the host join J, which on
\* windows also lets a prefixed path replace the base and a rooted path
\* replace all but the base's prefix; when J is not a string the call
\* returns the error Other.
C12_CleanOfJoin ==
    (/\ op = "absolute_path" /\ apc = "done"
     /\ AbsoluteHostPath(target_os, base_dir)
     /\ target # <<>>)
        => outcome = IF Convertible(HostJoin(target_os, base_dir, target))
                     THEN Ok(clean(target_os, HostJoin(target_os, base_dir, target)))
                     ELSE Err("Other")

\* a relative path that starts with `..` has cancelled the last name of the
\* base directory
C12_Witness ==
    /\ op = "absolute_path" /\ apc = "done"
    /\ AbsoluteHostPath(target_os, base_dir)
    /\ base_dir[Len(base_dir)] = "a"
    /\ Len(target) >= 2 /\ SubSeq(target, 1, 2) = <<".", ".">>
    /\ outcome.ok
    /\ Len(outcome.value) < Len(base_dir)

\* C13 (empty path): for an absolute base_dir that is a string and the empty
\* path the result is Clean(base_dir): "/aa" stays "/aa", "//a" and "/a/"
\* give "/a".
C13_EmptyPath ==
    (/\ op = "absolute_path" /\ apc = "done"
     /\ AbsoluteHostPath(target_os, base_dir)
     /\ target = <<>>
     /\ Convertible(base_dir))
        => /\ outcome = Ok(clean(target_os, base_dir))
           /\ (target_os = "linux" /\ base_dir = <<"/", "a", "a">>
                  => outcome.value = <<"/", "a", "a">>)
           /\ (target_os = "linux" /\ base_dir \in {<<"/", "/", "a">>, <<"/", "a", "/">>}
                  => outcome.value = <<"/", "a">>)

\* a base directory that is not clean was returned cleaned for the empty path
C13_Witness ==
    /\ op = "absolute_path" /\ apc = "done"
    /\ AbsoluteHostPath(target_os, base_dir)
    /\ target = <<>>
    /\ outcome.ok
    /\ outcome.value # base_dir
    /\ Contains(outcome.value, "a")

\* every segment after the root of p is a normal name; none when p is the
\* root alone
NormalAfterRoot(os, p) ==
    LET k == IF os = "windows" THEN 3 ELSE 1
        body == SubSeq(p, k + 1, Len(p))
        segs == split_on_separators(PlatformPath(os), body)
    IN  body = <<>> \/ \A i \in 1..Len(segs) : IsNormalName(PlatformPath(os), segs[i])

\* C14 (shape of the result): every result of absolute_path is an absolute
\* path whose components after the root are all normal names.
C14_AbsoluteNormalResult ==
    (op = "absolute_path" /\ apc = "done" /\ outcome.ok) =>
        /\ AbsoluteHostPath(target_os, outcome.value)
        /\ NormalAfterRoot(target_os, outcome.value)

\* the separator of the other platform
OTHER_SEPARATOR(os) == IF os = "windows" THEN "/" ELSE "\\"

\* C15 as stated: no result of absolute_path contains the other separator.
C15_Stated ==
    (op = "absolute_path" /\ apc = "done" /\ outcome.ok) =>
        ~Contains(outcome.value, OTHER_SEPARATOR(target_os))

\* C15 as amended: on windows no result contains `/`; on another target a
\* result contains `\` only if base_dir or the path does.
C15_OtherSeparator ==
    (op = "absolute_path" /\ apc = "done" /\ outcome.ok) =>
        IF target_os = "windows"
        THEN ~Contains(outcome.value, "/")
        ELSE Contains(outcome.value, "\\")
                => (Contains(base_dir, "\\") \/ Contains(target, "\\"))

\* on windows a base directory and a path written with `/` gave a result
\* written with `\`
C15_Witness ==
    /\ op = "absolute_path" /\ apc = "done" /\ outcome.ok
    /\ target_os = "windows"
    /\ Contains(base_dir, "/") /\ ~Contains(base_dir, "\\")
    /\ Contains(target, "/") /\ ~Contains(target, "\\")
    /\ Contains(outcome.value, "\\")

\* C16 (PathBuf's clean method): it always returns a path: clean of the
\* string for a path that is a string, "." for one that is not; absolute_path
\* returns an error for a path that is not a string.
C16_PathBufClean ==
    /\ (op = "clean" /\ apc = "done") =>
          /\ outcome.ok
          /\ (Convertible(target) => outcome.value = clean(target_os, target))
          /\ (~Convertible(target) => outcome.value = <<".">>)
          /\ (target_os = "linux" /\ target = <<"/", ".", "/">> => outcome.value = <<"/">>)
    /\ (op = "absolute_path" /\ apc = "done" /\ ~Convertible(target)) => ~outcome.ok

\* the clean method was called on a path that is not a string
C16_Witness ==
    /\ op = "clean" /\ apc = "done"
    /\ ~Convertible(target)
    /\ Len(target) >= 2
    /\ outcome = Ok(<<".">>)

====
